---- MODULE Spec2Model ----
(***************************************************************************)
(* The traversal-and-tracing engine of the graph algorithm visualizer:     *)
(* runDFS (algorithms/dfs.ts), runBFS (algorithms/bfs.ts), runDijkstra     *)
(* (algorithms/dijkstra.ts) and runToposort (algorithms/index.ts), each    *)
(* as a state machine with one action per validation block and one action  *)
(* per iteration of its main loop.                                         *)
(*                                                                         *)
(* JavaScript values are modelled as follows.  An array is a sequence, a   *)
(* Record<string, T> is a function whose domain is its key set, a Set is   *)
(* the sequence of its elements in insertion order (the order Array.from   *)
(* yields).  A string is a string; the two non-ASCII separators of the     *)
(* sources are written in ASCII (Arrow, InfinitySymbol).  The number       *)
(* Infinity is a value larger than every finite distance of the model.     *)
(***************************************************************************)
EXTENDS Integers, Sequences, FiniteSets, TLC

\* ------------------------------------------------------------------ bounds
\* nodes of a graph
MaxNodes == 3
\* edges of an unweighted graph
MaxEdges == 2
\* edges of a weighted graph without negative weight
MaxWeightedEdges == 3
\* largest weight of an edge
MaxWeight == 1
\* calls of runAlgorithm on the page
MaxRuns == 2
\* changes made to the graph setup of the page
MaxEdits == 2
\* edges of the graphs on which every algorithm is run, whatever their kind
MaxMinorEdges == 1
\* the number of edges of the graphs runDFS is compared with the recursive search on
MaxDfsEdges == 3

\* ------------------------------------------------------------- JS values
\* the value of a missing argument
Undefined == "undefined"
\* node ids, in declared order; a graph of k nodes declares the first k
Ids == <<"A", "B", "C", "D", "E">>
\* a start id that is the id of no node
UnknownId == "Z"
\* U+2192 between spaces, the separator of the step displays
Arrow == " -> "
\* U+221E, the label of an infinite distance in a Dijkstra step
InfinitySymbol == "oo"
\* Number.POSITIVE_INFINITY: above every finite path length of the model
Infinity == (MaxNodes * (MaxWeight + 1)) + 1

EmptyRecord == [k \in {} |-> 0]

\* obj[k] = v
Put(obj, k, v) == [x \in (DOMAIN obj) \cup {k} |-> IF x = k THEN v ELSE obj[x]]

\* String(n) and n.toString() of a number
NumToString(n) == IF n = Infinity THEN "Infinity" ELSE ToString(n)

\* arr.join(sep)
RECURSIVE Join(_, _)
Join(arr, sep) ==
    IF Len(arr) = 0 THEN ""
    ELSE IF Len(arr) = 1 THEN arr[1]
    ELSE arr[1] \o sep \o Join(Tail(arr), sep)

\* arr.map(f)
Map(arr, f(_)) == [i \in 1..Len(arr) |-> f(arr[i])]

\* mutation: the neighbours are pushed in the order of the edge list
NotReversed(arr) == arr

\* the array in reverse order: for (let i = neighbors.length - 1; i >= 0; i--)
Reverse(arr) == [i \in 1..Len(arr) |-> arr[Len(arr) + 1 - i]]

\* arr.includes(x) / set.has(x)
Has(arr, x) == \E i \in 1..Len(arr) : arr[i] = x

\* !startId
Falsy(s) == s = Undefined \/ s = ""

\* graph.nodes.some(n => n.id === startId)
IsNode(g, s) == \E i \in 1..Len(g.nodes) : g.nodes[i].id = s

NodeIds(g) == {g.nodes[i].id : i \in 1..Len(g.nodes)}

\* ------------------------------------------------------------ GraphData
GraphNodes(k) == [i \in 1..k |-> [id |-> Ids[i]]]

\* GraphEdge without weight (unweighted graph) and with weight
PlainEdges(k) == {[node1 |-> Ids[a], node2 |-> Ids[b]] : a, b \in 1..k}
WeightedEdges(k, lo) ==
    {[node1 |-> Ids[a], node2 |-> Ids[b], weight |-> w] :
        a, b \in 1..k, w \in lo..MaxWeight}

EdgeLists(E, maxLen) == UNION {[1..n -> E] : n \in 0..maxLen}

GraphData(k, edgeLists, weighted) ==
    {[nodes |-> GraphNodes(k), edges |-> es, isDirected |-> d, isWeighted |-> weighted] :
        es \in edgeLists, d \in BOOLEAN}

\* well-formed unweighted graphs
UnweightedGraphs(maxLen) ==
    UNION {GraphData(k, EdgeLists(PlainEdges(k), maxLen), FALSE) : k \in 0..MaxNodes}
\* well-formed weighted graphs whose weights are >= lo
WeightedGraphs(maxLen, lo) ==
    UNION {GraphData(k, EdgeLists(WeightedEdges(k, lo), maxLen), TRUE) : k \in 0..MaxNodes}

Algorithms == {"dfs", "bfs", "dijkstra", "toposort"}

\* small graphs of every kind, negative weights included
MinorGraphs == UnweightedGraphs(MaxMinorEdges) \cup WeightedGraphs(MaxMinorEdges, -1)

\* the start ids of a call: a node of the graph, none, "", or an unknown id
StartIds(g) == NodeIds(g) \cup {Undefined, "", UnknownId}
ValidStartIds(g) == NodeIds(g)

\* ----------------------------------------------------------- TraversalResult
NoResult == [returned |-> FALSE]

TraversalStep(current, visitedList, structure, display, annotations) ==
    [current |-> current, visited |-> visitedList, structure |-> structure,
     display |-> display, nodeAnnotations |-> annotations]

\* -------------------------------------------------------------- messages
MsgDfsWeighted == "DFS does not run on a weighted graph"
MsgBfsWeighted == "BFS does not run on a weighted graph"
MsgInvalidStart == "Invalid or missing start node"
MsgNeedsWeighted == "Dijkstra's algorithm requires a weighted graph"
MsgNegative == "Dijkstra's algorithm does not support negative weights"
MsgNeedsDirected == "Topological sort requires a directed graph"
\* the dash of this message is U+2014 in the source
MsgCycle == "Graph contains a cycle - topological sort is not possible"
NoError == ""

\* the error kind a thrown message stands for
ErrorKind(msg) ==
    IF msg \in {MsgDfsWeighted, MsgBfsWeighted, MsgNeedsWeighted, MsgNeedsDirected}
        THEN "UnsupportedGraphKind"
    ELSE IF msg = MsgInvalidStart THEN "InvalidStartNode"
    ELSE IF msg = MsgNegative THEN "NegativeWeight"
    ELSE IF msg = MsgCycle THEN "CycleDetected"
    ELSE "none"

VARIABLES
    algo,            \* the registry key of the running algorithm
    graph,           \* the GraphData argument
    startId,         \* the startId argument
    pc,              \* "call", "loop", "sweep", "done" (returned), "error" (threw)
    error,           \* the message of the thrown Error
    ret,             \* the returned TraversalResult
    visited,         \* DFS, Dijkstra: Set<string>
    discovered,      \* BFS: Map<string, boolean>
    parent,          \* BFS: Map<string, string | null>
    result,          \* DFS, BFS: string[]
    traversal,       \* Dijkstra, Toposort: string[]
    log,             \* DFS, BFS, Toposort: Record<string, number>
    steps,           \* TraversalLogEntry[]
    fullDisplay,     \* DFS, BFS: fullDisplay; Toposort: displayLines
    nodeAnnotations, \* DFS, BFS, Toposort: Record<string, string>
    stack,           \* DFS: the stack of processComponent
    sweep,           \* DFS: position of the sweep over graph.nodes
    queue,           \* BFS, Toposort: string[]
    pq,              \* Dijkstra: [string, number][]
    distances,       \* Dijkstra: Record<string, number>
    previous,        \* Dijkstra: Record<string, string | null>
    inDegree,        \* Toposort: Record<string, number>
    adjList,         \* Toposort: Record<string, string[]>
    sharesResult,    \* indices of the steps whose visited array is the array result
    recorded,        \* history: every step as it was when it was pushed
    invocation,      \* history: 1 for the first call, 2 for the repeated call
    first            \* history: the outcome of the first call

\* the state of the page component (page.tsx, lines 12-32)
VARIABLES
    nodes,              \* string[]
    edges,              \* { node1, node2, weight? }[]
    isDirected,
    isWeighted,
    highlightedNodes,   \* string[]
    selectedNode,
    fullLog,
    selectedAlgo,
    shownAnnotations,   \* the state nodeAnnotations of the page
    errorMessage,
    isRunningAlgorithm,
    timers,             \* the intervals that were set and not cleared, oldest first
    runs,               \* history: the number of calls of runAlgorithm
    edits,              \* history: the number of changes made to the graph setup
    handlerRunning      \* the isRunningAlgorithm the click handlers of ForceGraph see

page == <<nodes, edges, isDirected, isWeighted, highlightedNodes, selectedNode, fullLog,
          selectedAlgo, shownAnnotations, errorMessage, isRunningAlgorithm, timers, runs,
          edits, handlerRunning>>

locals == <<visited, discovered, parent, result, traversal, log, steps, fullDisplay,
            nodeAnnotations, stack, sweep, queue, pq, distances, previous, inDegree,
            adjList, sharesResult, recorded>>
args == <<algo, graph, startId>>
vars == <<args, pc, error, ret, locals, invocation, first, page>>

Null == "null"

\* mutation: the set is declared outside the function and outlives the call
KeptVisited(prior) == prior

\* const visited = new Set<string>(): a set of its own for every call, whatever
\* the set of the call before held
NewVisited(prior) == <<>>

\* mutation: queue.pop() in place of queue.shift()
Pop(q) == [item |-> q[Len(q)], rest |-> SubSeq(q, 1, Len(q) - 1)]

\* queue.shift(): the first element, and the queue without it
Shift(q) == [item |-> Head(q), rest |-> Tail(q)]

\* mutation: Toposort refuses weighted graphs as DFS and BFS do
ToposortUnsupportedStrict(g) == ~g.isDirected \/ g.isWeighted

\* the graph-kind checks at the top of the four algorithms
DfsUnsupported(g) == g.isWeighted
BfsUnsupported(g) == g.isWeighted
DijkstraUnsupported(g) == ~g.isWeighted
ToposortUnsupported(g) == ~g.isDirected

\* mutation: the start id is compared with the first node only
InvalidStartFirstOnly(g, s) ==
    Falsy(s) \/ Len(g.nodes) = 0 \/ g.nodes[1].id # s

\* !startId || !graph.nodes.some(n => n.id === startId)
InvalidStart(g, s) == Falsy(s) \/ ~IsNode(g, s)

\* mutation: the weights are not checked
NoWeightCheck(g) == FALSE

\* graph.edges.some(e => e.weight! < 0)
HasNegativeWeight(g) == \E i \in 1..Len(g.edges) : g.edges[i].weight < 0

\* mutation: the start id is ignored and the sweep starts every component
DfsStartIgnored(g, s) == FALSE

\* if (startId && graph.nodes.some(n => n.id === startId)): dfs.ts, line 53
DfsStartsAt(g, s) == ~Falsy(s) /\ IsNode(g, s)

\* mutation: the check of the popped entry is missing
NeverVisited(seen, node) == FALSE

\* if (visited.has(node)) continue
AlreadyVisited(seen, node) == Has(seen, node)

\* the locals of a call before its first statement
FreshLocals ==
    /\ visited = NewVisited(<<>>)
    /\ discovered = EmptyRecord
    /\ parent = EmptyRecord
    /\ result = <<>>
    /\ traversal = <<>>
    /\ log = EmptyRecord
    /\ steps = <<>>
    /\ fullDisplay = <<>>
    /\ nodeAnnotations = EmptyRecord
    /\ stack = <<>>
    /\ sweep = 0
    /\ queue = <<>>
    /\ pq = <<>>
    /\ distances = EmptyRecord
    /\ previous = EmptyRecord
    /\ inDegree = EmptyRecord
    /\ adjList = EmptyRecord
    /\ sharesResult = {}
    /\ recorded = <<>>

\* the state of a call before its first statement
Fresh ==
    /\ pc = "call"
    /\ error = NoError
    /\ ret = NoResult
    /\ FreshLocals

\* an algorithm called by a caller other than the page: the page holds nothing
NoPage ==
    /\ nodes = <<>>
    /\ edges = <<>>
    /\ isDirected = FALSE
    /\ isWeighted = FALSE
    /\ highlightedNodes = <<>>
    /\ selectedNode = ""
    /\ fullLog = ""
    /\ selectedAlgo = ""
    /\ shownAnnotations = EmptyRecord
    /\ errorMessage = ""
    /\ isRunningAlgorithm = FALSE
    /\ timers = <<>>
    /\ runs = 0
    /\ edits = 0
    /\ handlerRunning = FALSE

InitOn(a, graphs, starts(_)) ==
    /\ NoPage
    /\ algo = a
    /\ graph \in graphs
    /\ startId \in starts(graph)
    /\ invocation = 1
    /\ first = NoResult
    /\ Fresh

\* every algorithm on every small graph of every kind with every start id
Init == \E a \in Algorithms : InitOn(a, MinorGraphs, StartIds)
\* each algorithm on the larger graphs of its own kind
InitDFS == InitOn("dfs", UnweightedGraphs(MaxEdges), StartIds)
\* runDFS on graphs that can hold a triangle
InitDeepDFS == InitOn("dfs", UnweightedGraphs(MaxDfsEdges), StartIds)
InitBFS == InitOn("bfs", UnweightedGraphs(MaxEdges), ValidStartIds)
InitDijkstra == InitOn("dijkstra", WeightedGraphs(MaxWeightedEdges, 0), ValidStartIds)
InitToposort == InitOn("toposort", UnweightedGraphs(MaxEdges), StartIds)
InitTraversals == InitDFS \/ InitBFS \/ InitToposort

\* the graph the page is created with (page.tsx, lines 12-21), unweighted, and
\* the same graph as a directed one
ExampleGraphs ==
    {[nodes |-> GraphNodes(5),
      edges |-> <<[node1 |-> "A", node2 |-> "B"], [node1 |-> "A", node2 |-> "C"],
                  [node1 |-> "B", node2 |-> "D"], [node1 |-> "C", node2 |-> "E"],
                  [node1 |-> "D", node2 |-> "E"]>>,
      isDirected |-> d, isWeighted |-> FALSE] : d \in BOOLEAN}
\* runDFS and runBFS on that graph, from every start id
InitExample == \E a \in {"dfs", "bfs"} : InitOn(a, ExampleGraphs, StartIds)

\* mutation: a loop takes the edges off graph.edges itself
EdgesConsumed ==
    /\ graph' = [graph EXCEPT !.edges = IF Len(@) = 0 THEN @ ELSE Tail(@)]
    /\ UNCHANGED <<algo, startId>>

\* the four functions read graph and startId and assign to none of them, nor
\* to an element of graph.nodes or graph.edges: filter and map build new arrays
ArgsRead == UNCHANGED args

\* throw new Error(msg)
Throw(msg) ==
    /\ pc' = "error"
    /\ error' = msg
    /\ UNCHANGED ret

\* ------------------------------------------------------------------- DFS
\* the neighbours of node that are pushed: dfs.ts, lines 41-44
DfsNeighbors(g, node, seen) ==
    LET touching == SelectSeq(g.edges,
            LAMBDA e : e.node1 = node \/ (~g.isDirected /\ e.node2 = node))
        others == Map(touching, LAMBDA e : IF e.node1 = node THEN e.node2 ELSE e.node1)
    IN  SelectSeq(others, LAMBDA n : ~Has(seen, n))

DfsDisplay(node, structure, visitedList) ==
    "Current: " \o node \o " | Stack: " \o Join(structure, Arrow)
        \o " | Visited: " \o Join(visitedList, ", ")

\* runDFS up to the first call of processComponent
DFSCall ==
    /\ UNCHANGED page
    /\ algo = "dfs" /\ pc = "call"
    /\ IF DfsUnsupported(graph)
       THEN /\ Throw(MsgDfsWeighted)
            /\ UNCHANGED locals
       ELSE /\ IF DfsStartsAt(graph, startId)
               THEN stack' = <<startId>> /\ pc' = "loop"
               ELSE stack' = <<>> /\ pc' = "sweep"
            /\ sweep' = 1
            /\ UNCHANGED <<error, ret, visited, discovered, parent, result, traversal,
                           log, steps, fullDisplay, nodeAnnotations, queue, pq,
                           distances, previous, inDegree, adjList, sharesResult,
                           recorded>>
    /\ ArgsRead /\ UNCHANGED <<invocation, first>>

\* mutation: the top of the stack is read and left on the stack
StackTop(s) == [item |-> s[Len(s)], rest |-> s]

\* stack.pop(): the last element, and the stack without it
StackPop(s) == [item |-> s[Len(s)], rest |-> SubSeq(s, 1, Len(s) - 1)]

\* one iteration of the while loop of processComponent, or its exit
DFSPop ==
    /\ UNCHANGED page
    /\ algo = "dfs" /\ pc = "loop"
    /\ UNCHANGED <<discovered, parent, traversal, sweep, queue, pq, distances,
                   previous, inDegree, adjList, sharesResult>>
    /\ ArgsRead /\ UNCHANGED <<error, ret, invocation, first>>
    /\ IF Len(stack) = 0
       THEN /\ pc' = "sweep"
            /\ UNCHANGED <<visited, result, log, steps, fullDisplay, nodeAnnotations,
                           stack, recorded>>
       ELSE LET node == StackPop(stack).item
                rest == StackPop(stack).rest
            IN  IF AlreadyVisited(visited, node)
                THEN /\ stack' = rest
                     /\ UNCHANGED <<pc, visited, result, log, steps, fullDisplay,
                                    nodeAnnotations, recorded>>
                ELSE LET visited1 == Append(visited, node)
                         result1 == Append(result, node)
                         annotations1 == Put(nodeAnnotations, node, NumToString(Len(result1)))
                         stepDisplay == DfsDisplay(node, rest, visited1)
                         step == TraversalStep(node, visited1, rest, stepDisplay, annotations1)
                         neighbors == DfsNeighbors(graph, node, visited1)
                     IN  /\ visited' = visited1
                         /\ log' = Put(log, node, Len(result))
                         /\ result' = result1
                         /\ nodeAnnotations' = annotations1
                         /\ steps' = Append(steps, step)
                         /\ recorded' = Append(recorded, step)
                         /\ fullDisplay' = Append(fullDisplay, stepDisplay)
                         /\ stack' = rest \o Reverse(neighbors)
                         /\ UNCHANGED pc

\* one iteration of the sweep over graph.nodes, or the return after it
DFSSweep ==
    /\ UNCHANGED page
    /\ algo = "dfs" /\ pc = "sweep"
    /\ IF sweep > Len(graph.nodes)
       THEN /\ pc' = "done"
            /\ ret' = [returned |-> TRUE, traversal |-> result, log |-> log,
                       steps |-> steps, display |-> Join(fullDisplay, "\n"),
                       nodeAnnotations |-> nodeAnnotations]
            /\ UNCHANGED <<stack, sweep>>
       ELSE /\ sweep' = sweep + 1
            /\ IF ~Has(visited, graph.nodes[sweep].id)
               THEN stack' = <<graph.nodes[sweep].id>> /\ pc' = "loop"
               ELSE UNCHANGED <<stack, pc>>
            /\ UNCHANGED ret
    /\ UNCHANGED <<visited, discovered, parent, result, traversal, log, steps,
                   fullDisplay, nodeAnnotations, queue, pq, distances, previous,
                   inDegree, adjList, sharesResult, recorded>>
    /\ ArgsRead /\ UNCHANGED <<error, invocation, first>>

\* the visited arrays that are the array result see every push to result
Shared(stepList, sharing, arr) ==
    [i \in 1..Len(stepList) |->
        IF i \in sharing THEN [stepList[i] EXCEPT !.visited = arr] ELSE stepList[i]]

\* ------------------------------------------------------------------- BFS
\* mutation: every edge is followed in both directions
BfsNeighborsBothWays(g, v) ==
    LET touching == SelectSeq(g.edges, LAMBDA e : e.node1 = v \/ e.node2 = v)
    IN  Map(touching, LAMBDA e : IF e.node1 = v THEN e.node2 ELSE e.node1)

\* the neighbours of v in edge-list order: bfs.ts, lines 60-62
BfsNeighbors(g, v) ==
    LET touching == SelectSeq(g.edges,
            LAMBDA e : e.node1 = v \/ (~g.isDirected /\ e.node2 = v))
    IN  Map(touching, LAMBDA e : IF e.node1 = v THEN e.node2 ELSE e.node1)

BfsDisplay(v, structure, visitedList) ==
    "Current: " \o v \o " | Queue: " \o Join(structure, Arrow)
        \o " | Visited: " \o Join(visitedList, ", ")

\* mutation: the node is enqueued without being marked
NotMarked(map, u) == map

\* discovered.set(u, true): bfs.ts, line 66
MarkDiscovered(map, u) == Put(map, u, TRUE)

\* the for loop over the neighbours of v: bfs.ts, lines 64-73
RECURSIVE BfsDiscover(_, _, _)
BfsDiscover(st, v, neighbors) ==
    IF Len(neighbors) = 0 THEN st
    ELSE LET u == Head(neighbors)
         IN  IF ~st.discovered[u]
             THEN LET result1 == Append(st.result, u)
                  IN  BfsDiscover(
                        [discovered |-> MarkDiscovered(st.discovered, u),
                         queue |-> Append(st.queue, u),
                         parent |-> Put(st.parent, u, v),
                         result |-> result1,
                         log |-> Put(st.log, u, Len(result1) - 1),
                         nodeAnnotations |->
                             Put(st.nodeAnnotations, u, NumToString(Len(result1)))],
                        v, Tail(neighbors))
             ELSE BfsDiscover(st, v, Tail(neighbors))

\* mutation: the step is built at the end of the iteration, after the loop
\* over the neighbours
SnapshotAfterLoop(before, after) == after

\* the step is built right after the shift, before the loop over the
\* neighbours: bfs.ts, lines 45-56
BfsSnapshot(before, after) == before

\* runBFS up to the main loop
BFSCall ==
    /\ UNCHANGED page
    /\ algo = "bfs" /\ pc = "call"
    /\ ArgsRead /\ UNCHANGED <<invocation, first>>
    /\ UNCHANGED <<visited, traversal, steps, fullDisplay, stack, sweep, pq, distances,
                   previous, inDegree, adjList, sharesResult, recorded>>
    /\ IF BfsUnsupported(graph)
       THEN /\ Throw(MsgBfsWeighted)
            /\ UNCHANGED <<discovered, parent, result, log, nodeAnnotations, queue>>
       ELSE IF InvalidStart(graph, startId)
       THEN /\ Throw(MsgInvalidStart)
            /\ UNCHANGED <<discovered, parent, result, log, nodeAnnotations, queue>>
       ELSE /\ discovered' = [n \in NodeIds(graph) |-> n = startId]
            /\ parent' = [n \in NodeIds(graph) |-> Null]
            /\ queue' = <<startId>>
            /\ result' = <<startId>>
            /\ log' = Put(log, startId, 0)
            /\ nodeAnnotations' = Put(nodeAnnotations, startId, "1")
            /\ pc' = "loop"
            /\ UNCHANGED <<error, ret>>

\* one iteration of the main loop of runBFS
BFSDequeue ==
    /\ UNCHANGED page
    /\ algo = "bfs" /\ pc = "loop" /\ Len(queue) > 0
    /\ ArgsRead /\ UNCHANGED <<pc, error, ret, invocation, first>>
    /\ UNCHANGED <<visited, traversal, stack, sweep, pq, distances, previous, inDegree,
                   adjList>>
    /\ LET v == Shift(queue).item
           st == BfsDiscover(
                   [discovered |-> discovered, queue |-> Shift(queue).rest,
                    parent |-> parent, result |-> result, log |-> log,
                    nodeAnnotations |-> nodeAnnotations],
                   v, BfsNeighbors(graph, v))
           structure == BfsSnapshot(Shift(queue).rest, st.queue)
           stepDisplay == BfsDisplay(v, structure, result)
           step == TraversalStep(v, result, structure, stepDisplay,
                                 BfsSnapshot(nodeAnnotations, st.nodeAnnotations))
           steps1 == Append(steps, step)
           sharing == sharesResult \cup {Len(steps1)}
       IN  /\ recorded' = Append(recorded, step)
           /\ fullDisplay' = Append(fullDisplay, stepDisplay)
           /\ sharesResult' = sharing
           /\ discovered' = st.discovered
           /\ queue' = st.queue
           /\ parent' = st.parent
           /\ result' = st.result
           /\ log' = st.log
           /\ nodeAnnotations' = st.nodeAnnotations
           /\ steps' = Shared(steps1, sharing, st.result)

\* the return of runBFS
BFSReturn ==
    /\ UNCHANGED page
    /\ algo = "bfs" /\ pc = "loop" /\ Len(queue) = 0
    /\ pc' = "done"
    /\ ret' = [returned |-> TRUE, traversal |-> result, log |-> log, steps |-> steps,
               display |-> Join(fullDisplay, "\n"), nodeAnnotations |-> nodeAnnotations]
    /\ ArgsRead /\ UNCHANGED <<error, locals, invocation, first>>

\* -------------------------------------------------------------- Dijkstra
\* mutation: the queue is not sorted before the extraction
Unsorted(entries) == entries

\* mutation: an entry is placed before the entries of its own distance
InsertBeforeTies(sorted, entry) ==
    LET before == Cardinality({i \in 1..Len(sorted) : sorted[i][2] < entry[2]})
    IN  SubSeq(sorted, 1, before) \o <<entry>> \o SubSeq(sorted, before + 1, Len(sorted))

\* pq.sort((a, b) => a[1] - b[1]): a stable sort by distance
InsertByDistance(sorted, entry) ==
    LET before == Cardinality({i \in 1..Len(sorted) : sorted[i][2] <= entry[2]})
    IN  SubSeq(sorted, 1, before) \o <<entry>> \o SubSeq(sorted, before + 1, Len(sorted))

RECURSIVE SortByDistance(_)
SortByDistance(entries) ==
    IF Len(entries) = 0 THEN <<>>
    ELSE InsertByDistance(SortByDistance(SubSeq(entries, 1, Len(entries) - 1)),
                          entries[Len(entries)])

\* the neighbours of current that are relaxed: dijkstra.ts, lines 136-142
DijkstraNeighbors(g, current, seen) ==
    LET touching == SelectSeq(g.edges,
            LAMBDA e : e.node1 = current \/ (~g.isDirected /\ e.node2 = current))
        others == Map(touching, LAMBDA e :
            [id |-> IF e.node1 = current THEN e.node2 ELSE e.node1, weight |-> e.weight])
    IN  SelectSeq(others, LAMBDA n : ~Has(seen, n.id))

\* the for loop over the neighbours of current: dijkstra.ts, lines 144-151
RECURSIVE Relax(_, _, _)
Relax(st, current, neighbors) ==
    IF Len(neighbors) = 0 THEN st
    ELSE LET id == Head(neighbors).id
             alt == st.distances[current] + Head(neighbors).weight
         IN  IF alt < st.distances[id]
             THEN Relax([distances |-> Put(st.distances, id, alt),
                         previous |-> Put(st.previous, id, current),
                         pq |-> Append(st.pq, <<id, alt>>)],
                        current, Tail(neighbors))
             ELSE Relax(st, current, Tail(neighbors))

\* the annotations of one step: dijkstra.ts, lines 154-161
StepAnnotations(g, dist, seen) ==
    [n \in {m \in NodeIds(g) : dist[m] = Infinity \/ Has(seen, m)} |->
        IF dist[n] = Infinity THEN InfinitySymbol ELSE NumToString(dist[n])]

\* the annotations of the result: dijkstra.ts, lines 177-179
FinalAnnotations(dist) == [n \in DOMAIN dist |-> NumToString(dist[n])]

PqIds(entries) == Map(entries, LAMBDA entry : entry[1])

DijkstraDisplay(current, dist, entries) ==
    "Visiting " \o current \o " (dist: " \o NumToString(dist[current]) \o "), PQ: ["
        \o Join(PqIds(entries), ", ") \o "]"

\* runDijkstra up to the main loop
DijkstraCall ==
    /\ UNCHANGED page
    /\ algo = "dijkstra" /\ pc = "call"
    /\ ArgsRead /\ UNCHANGED <<invocation, first>>
    /\ UNCHANGED <<visited, discovered, parent, result, traversal, log, steps,
                   fullDisplay, nodeAnnotations, stack, sweep, queue, inDegree, adjList,
                   sharesResult, recorded>>
    /\ IF InvalidStart(graph, startId)
       THEN /\ Throw(MsgInvalidStart)
            /\ UNCHANGED <<pq, distances, previous>>
       ELSE IF DijkstraUnsupported(graph)
       THEN /\ Throw(MsgNeedsWeighted)
            /\ UNCHANGED <<pq, distances, previous>>
       ELSE IF HasNegativeWeight(graph)
       THEN /\ Throw(MsgNegative)
            /\ UNCHANGED <<pq, distances, previous>>
       ELSE /\ pq' = <<<<startId, 0>>>>
            /\ distances' = [n \in NodeIds(graph) |-> IF n = startId THEN 0 ELSE Infinity]
            /\ previous' = [n \in NodeIds(graph) |-> Null]
            /\ pc' = "loop"
            /\ UNCHANGED <<error, ret>>

\* one iteration of the main loop of runDijkstra
DijkstraExtract ==
    /\ UNCHANGED page
    /\ algo = "dijkstra" /\ pc = "loop" /\ Len(pq) > 0
    /\ ArgsRead /\ UNCHANGED <<pc, error, ret, invocation, first>>
    /\ UNCHANGED <<discovered, parent, result, log, fullDisplay, nodeAnnotations, stack,
                   sweep, queue, inDegree, adjList, sharesResult>>
    /\ LET sorted == SortByDistance(pq)
           current == sorted[1][1]
           rest == Tail(sorted)
       IN  IF AlreadyVisited(visited, current)
           THEN /\ pq' = rest
                /\ UNCHANGED <<visited, traversal, distances, previous, steps, recorded>>
           ELSE LET visited1 == Append(visited, current)
                    st == Relax([distances |-> distances, previous |-> previous,
                                 pq |-> rest],
                                current, DijkstraNeighbors(graph, current, visited1))
                    step == TraversalStep(current, visited1, PqIds(st.pq),
                                DijkstraDisplay(current, st.distances, st.pq),
                                StepAnnotations(graph, st.distances, visited1))
                IN  /\ visited' = visited1
                    /\ traversal' = Append(traversal, current)
                    /\ distances' = st.distances
                    /\ previous' = st.previous
                    /\ pq' = st.pq
                    /\ steps' = Append(steps, step)
                    /\ recorded' = Append(recorded, step)

\* the return of runDijkstra
DijkstraReturn ==
    /\ UNCHANGED page
    /\ algo = "dijkstra" /\ pc = "loop" /\ Len(pq) = 0
    /\ pc' = "done"
    /\ ret' = [returned |-> TRUE, traversal |-> traversal, log |-> distances,
               steps |-> steps, nodeAnnotations |-> FinalAnnotations(distances)]
    /\ ArgsRead /\ UNCHANGED <<error, locals, invocation, first>>

\* -------------------------------------------------------------- Toposort
\* mutation: node1 and node2 of an edge are taken for each other
RECURSIVE CountEdgesReversed(_, _)
CountEdgesReversed(st, edgeList) ==
    IF Len(edgeList) = 0 THEN st
    ELSE LET edge == Head(edgeList)
         IN  CountEdgesReversed(
               [inDegree |-> Put(st.inDegree, edge.node1, st.inDegree[edge.node1] + 1),
                adjList |-> Put(st.adjList, edge.node2,
                                Append(st.adjList[edge.node2], edge.node1))],
               Tail(edgeList))

\* mutation: an edge from a node to itself is not counted
RECURSIVE CountEdgesNoLoops(_, _)
CountEdgesNoLoops(st, edgeList) ==
    IF Len(edgeList) = 0 THEN st
    ELSE LET edge == Head(edgeList)
         IN  CountEdgesNoLoops(
               [inDegree |-> IF edge.node1 = edge.node2 THEN st.inDegree
                             ELSE Put(st.inDegree, edge.node2, st.inDegree[edge.node2] + 1),
                adjList |-> Put(st.adjList, edge.node1,
                                Append(st.adjList[edge.node1], edge.node2))],
               Tail(edgeList))

\* the loop over graph.edges: index.ts, lines 82-85
RECURSIVE CountEdges(_, _)
CountEdges(st, edgeList) ==
    IF Len(edgeList) = 0 THEN st
    ELSE LET edge == Head(edgeList)
         IN  CountEdges(
               [inDegree |-> Put(st.inDegree, edge.node2, st.inDegree[edge.node2] + 1),
                adjList |-> Put(st.adjList, edge.node1,
                                Append(st.adjList[edge.node1], edge.node2))],
               Tail(edgeList))

\* the loop over adjList[current]: index.ts, lines 102-107
RECURSIVE Release(_, _)
Release(st, neighbors) ==
    IF Len(neighbors) = 0 THEN st
    ELSE LET neighbor == Head(neighbors)
             degree == st.inDegree[neighbor] - 1
         IN  Release([inDegree |-> Put(st.inDegree, neighbor, degree),
                      queue |-> IF degree = 0 THEN Append(st.queue, neighbor)
                                ELSE st.queue],
                     Tail(neighbors))

ToposortDisplay(current, structure, order) ==
    "Selected: " \o current \o " | Queue: [" \o Join(structure, ", ") \o "] | Order: "
        \o Join(order, Arrow)

\* runToposort up to the main loop
ToposortCall ==
    /\ UNCHANGED page
    /\ algo = "toposort" /\ pc = "call"
    /\ ArgsRead /\ UNCHANGED <<invocation, first>>
    /\ UNCHANGED <<visited, discovered, parent, result, traversal, log, steps,
                   fullDisplay, nodeAnnotations, stack, sweep, pq, distances, previous,
                   sharesResult, recorded>>
    /\ IF ToposortUnsupported(graph)
       THEN /\ Throw(MsgNeedsDirected)
            /\ UNCHANGED <<queue, inDegree, adjList>>
       ELSE LET st == CountEdges([inDegree |-> [n \in NodeIds(graph) |-> 0],
                                  adjList |-> [n \in NodeIds(graph) |-> <<>>]],
                                 graph.edges)
            IN  /\ inDegree' = st.inDegree
                /\ adjList' = st.adjList
                /\ queue' = SelectSeq(Map(graph.nodes, LAMBDA n : n.id),
                                      LAMBDA id : st.inDegree[id] = 0)
                /\ pc' = "loop"
                /\ UNCHANGED <<error, ret>>

\* one iteration of the main loop of runToposort
ToposortDequeue ==
    /\ UNCHANGED page
    /\ algo = "toposort" /\ pc = "loop" /\ Len(queue) > 0
    /\ ArgsRead /\ UNCHANGED <<pc, error, ret, invocation, first>>
    /\ UNCHANGED <<visited, discovered, parent, result, stack, sweep, pq, distances,
                   previous, adjList, sharesResult>>
    /\ LET current == Shift(queue).item
           rank == Len(traversal)
           traversal1 == Append(traversal, current)
           annotations1 == Put(nodeAnnotations, current, NumToString(rank + 1))
           st == Release([inDegree |-> inDegree, queue |-> Shift(queue).rest],
                         adjList[current])
           stepDisplay == ToposortDisplay(current, st.queue, traversal1)
           step == TraversalStep(current, traversal1, st.queue, stepDisplay, annotations1)
       IN  /\ traversal' = traversal1
           /\ log' = Put(log, current, rank)
           /\ nodeAnnotations' = annotations1
           /\ inDegree' = st.inDegree
           /\ queue' = st.queue
           /\ fullDisplay' = Append(fullDisplay, stepDisplay)
           /\ steps' = Append(steps, step)
           /\ recorded' = Append(recorded, step)

\* the cycle check and the return of runToposort
ToposortReturn ==
    /\ UNCHANGED page
    /\ algo = "toposort" /\ pc = "loop" /\ Len(queue) = 0
    /\ IF Len(traversal) # Len(graph.nodes)
       THEN Throw(MsgCycle)
       ELSE /\ pc' = "done"
            /\ ret' = [returned |-> TRUE, traversal |-> traversal, log |-> log,
                       steps |-> steps, display |-> Join(fullDisplay, "\n"),
                       nodeAnnotations |-> nodeAnnotations]
            /\ UNCHANGED error
    /\ ArgsRead /\ UNCHANGED <<locals, invocation, first>>

\* ------------------------------------------------------- a second call
\* what a call hands to its caller: the thrown message or the returned result
Outcome == [error |-> error, ret |-> ret]

\* the caller invokes the same algorithm again with the same arguments; the
\* call declares its locals anew
Reinvoke ==
    /\ UNCHANGED page
    /\ invocation = 1 /\ pc \in {"done", "error"}
    /\ first' = Outcome
    /\ invocation' = 2
    /\ pc' = "call"
    /\ error' = NoError
    /\ ret' = NoResult
    /\ visited' = NewVisited(visited)
    /\ discovered' = EmptyRecord
    /\ parent' = EmptyRecord
    /\ result' = <<>>
    /\ traversal' = <<>>
    /\ log' = EmptyRecord
    /\ steps' = <<>>
    /\ fullDisplay' = <<>>
    /\ nodeAnnotations' = EmptyRecord
    /\ stack' = <<>>
    /\ sweep' = 0
    /\ queue' = <<>>
    /\ pq' = <<>>
    /\ distances' = EmptyRecord
    /\ previous' = EmptyRecord
    /\ inDegree' = EmptyRecord
    /\ adjList' = EmptyRecord
    /\ sharesResult' = {}
    /\ recorded' = <<>>
    /\ UNCHANGED args

\* ------------------------------------------------------------- the page
MsgEmptyGraph == "The graph is empty. Add nodes and edges to run the algorithm."
MsgSelectStart == "Please select a valid starting node."
FriendlyNeedsWeighted == "Dijkstra's algorithm requires a weighted graph. Please enable weights in the Graph Setup panel and add weights to edges."
FriendlyNegative == "Dijkstra's algorithm does not support negative edge weights. Please ensure all edge weights are non-negative."
FriendlyInvalidStart == "Please select a valid starting node from the Algorithm Setup panel."

\* algo.toUpperCase()
ToUpperCase(a) ==
    CASE a = "dfs" -> "DFS" [] a = "bfs" -> "BFS" [] a = "dijkstra" -> "DIJKSTRA"
      [] a = "toposort" -> "TOPOSORT" [] OTHER -> a

\* the message shown for a thrown message: page.tsx, lines 121-132; includes()
\* is decided on the messages the code throws
UserFriendlyMessage(a, message) ==
    IF message \in {MsgDfsWeighted, MsgBfsWeighted}
        THEN ToUpperCase(a) \o " requires an unweighted graph. Please switch to an unweighted graph in the Graph Setup panel."
    ELSE IF message = MsgNeedsWeighted THEN FriendlyNeedsWeighted
    ELSE IF message = MsgNegative THEN FriendlyNegative
    ELSE IF message = MsgInvalidStart THEN FriendlyInvalidStart
    ELSE message

\* the edges the Add Edge form is filled with, and the weights typed
NewEdgeEnds == {<<"E", "A">>}
NewEdgeWeights == {-1, 1}
\* the options chosen in the Starting Node select
StartOptions == {"", "A", "C"}

\* no call of an algorithm is in progress
NoGraph == [nodes |-> <<>>, edges |-> <<>>, isDirected |-> FALSE, isWeighted |-> FALSE]
Idle ==
    /\ pc = "idle"
    /\ algo = ""
    /\ graph = NoGraph
    /\ startId = Undefined
    /\ error = NoError
    /\ ret = NoResult
    /\ FreshLocals

\* the call of the algorithm is over: its arguments and locals are gone
BackToIdle ==
    /\ pc' = "idle"
    /\ algo' = ""
    /\ graph' = NoGraph
    /\ startId' = Undefined
    /\ error' = NoError
    /\ ret' = NoResult
    /\ visited' = NewVisited(visited)
    /\ discovered' = EmptyRecord
    /\ parent' = EmptyRecord
    /\ result' = <<>>
    /\ traversal' = <<>>
    /\ log' = EmptyRecord
    /\ steps' = <<>>
    /\ fullDisplay' = <<>>
    /\ nodeAnnotations' = EmptyRecord
    /\ stack' = <<>>
    /\ sweep' = 0
    /\ queue' = <<>>
    /\ pq' = <<>>
    /\ distances' = EmptyRecord
    /\ previous' = EmptyRecord
    /\ inDegree' = EmptyRecord
    /\ adjList' = EmptyRecord
    /\ sharesResult' = {}
    /\ recorded' = <<>>

\* the edges after the effect of isWeighted: page.tsx, lines 36-48
Normalized(es, weighted) ==
    [i \in 1..Len(es) |->
        IF weighted
        THEN [node1 |-> es[i].node1, node2 |-> es[i].node2,
              weight |-> IF "weight" \in DOMAIN es[i] THEN es[i].weight ELSE 1]
        ELSE [node1 |-> es[i].node1, node2 |-> es[i].node2]]

\* the page after its first render and the effects of the mount
InitPage ==
    /\ nodes = <<"A", "B", "C", "D", "E">>
    /\ edges = Normalized(<<[node1 |-> "A", node2 |-> "B", weight |-> 1],
                            [node1 |-> "A", node2 |-> "C", weight |-> 1],
                            [node1 |-> "B", node2 |-> "D", weight |-> 1],
                            [node1 |-> "C", node2 |-> "E", weight |-> 1],
                            [node1 |-> "D", node2 |-> "E", weight |-> 1]>>, FALSE)
    /\ isDirected = FALSE
    /\ isWeighted = FALSE
    /\ highlightedNodes = <<>>
    /\ selectedNode = "A"
    /\ fullLog = ""
    /\ selectedAlgo = ""
    /\ shownAnnotations = EmptyRecord
    /\ errorMessage = ""
    /\ isRunningAlgorithm = FALSE
    /\ timers = <<>>
    /\ runs = 0
    /\ edits = 0
    /\ handlerRunning = FALSE
    /\ invocation = 1
    /\ first = NoResult
    /\ Idle

\* mutation: the display is reset before the algorithm is called, so that a
\* failing run clears it
CatchAfterReset(a, message) ==
    /\ errorMessage' = UserFriendlyMessage(a, message)
    /\ isRunningAlgorithm' = FALSE
    /\ highlightedNodes' = <<>>
    /\ fullLog' = ""
    /\ shownAnnotations' = EmptyRecord
    /\ UNCHANGED <<nodes, edges, isDirected, isWeighted, selectedNode, selectedAlgo,
                   timers, edits, handlerRunning>>

\* the catch block of runAlgorithm: page.tsx, lines 119-136
Catch(a, message) ==
    /\ errorMessage' = UserFriendlyMessage(a, message)
    /\ isRunningAlgorithm' = FALSE
    /\ UNCHANGED <<nodes, edges, isDirected, isWeighted, highlightedNodes, selectedNode,
                   fullLog, selectedAlgo, shownAnnotations, timers, edits, handlerRunning>>

\* a click on an algorithm button: runAlgorithm up to the call of the algorithm
\* (page.tsx, lines 78-92), the catch block included when the validation throws
RunAlgorithm(a) ==
    /\ pc = "idle" /\ runs < MaxRuns
    /\ runs' = runs + 1
    /\ UNCHANGED <<error, ret, locals, invocation, first>>
    /\ LET g == [nodes |-> Map(nodes, LAMBDA id : [id |-> id]), edges |-> edges,
                 isDirected |-> isDirected, isWeighted |-> isWeighted]
       IN  IF Len(g.nodes) = 0
           THEN Catch(a, MsgEmptyGraph) /\ UNCHANGED <<args, pc>>
           ELSE IF Falsy(selectedNode) \/ ~IsNode(g, selectedNode)
           THEN Catch(a, MsgSelectStart) /\ UNCHANGED <<args, pc>>
           ELSE /\ algo' = a
                /\ graph' = g
                /\ startId' = selectedNode
                /\ pc' = "call"
                /\ UNCHANGED <<nodes, edges, isDirected, isWeighted, highlightedNodes,
                               selectedNode, fullLog, selectedAlgo, shownAnnotations,
                               errorMessage, isRunningAlgorithm, timers, edits,
                               handlerRunning>>

\* the algorithm returned: runAlgorithm from the result to the end of the try
\* block (page.tsx, lines 93-118); the locals of the call are gone
RunSucceeded ==
    /\ pc = "done" /\ runs > 0
    /\ highlightedNodes' = <<>>
    /\ selectedAlgo' = algo
    /\ fullLog' = ""
    /\ shownAnnotations' = EmptyRecord
    /\ errorMessage' = ""
    /\ isRunningAlgorithm' = TRUE
    /\ timers' = Append(timers, [traversal |-> ret.traversal, steps |-> ret.steps,
                                 finalAnnotations |-> ret.nodeAnnotations, index |-> 0])
    /\ UNCHANGED <<nodes, edges, isDirected, isWeighted, selectedNode, runs, edits,
                   handlerRunning>>
    /\ UNCHANGED <<invocation, first>>
    /\ BackToIdle

\* the algorithm threw: the catch block of runAlgorithm
RunFailed ==
    /\ pc = "error" /\ runs > 0
    /\ Catch(algo, error)
    /\ UNCHANGED <<runs, invocation, first>>
    /\ BackToIdle

\* mutation: the interval is left running
NotCleared(list, i) == list

\* clearInterval(interval): page.tsx, line 107
ClearInterval(list, i) == SubSeq(list, 1, i - 1) \o SubSeq(list, i + 1, Len(list))

\* the callback of an interval fires: page.tsx, lines 105-118
Tick(i) ==
    /\ pc = "idle" /\ i \in 1..Len(timers)
    /\ UNCHANGED <<args, pc, error, ret, locals, invocation, first>>
    /\ UNCHANGED <<nodes, edges, isDirected, isWeighted, selectedNode, selectedAlgo,
                   errorMessage, runs, edits, handlerRunning>>
    /\ LET interval == timers[i]
       IN  IF interval.index >= Len(interval.steps)
           THEN /\ timers' = ClearInterval(timers, i)
                /\ highlightedNodes' = interval.traversal
                /\ shownAnnotations' = interval.finalAnnotations
                /\ isRunningAlgorithm' = FALSE
                /\ UNCHANGED fullLog
           ELSE LET step == interval.steps[interval.index + 1]
                    shown == IF interval.index + 1 < Len(interval.traversal)
                             THEN interval.index + 1 ELSE Len(interval.traversal)
                IN  /\ highlightedNodes' = SubSeq(interval.traversal, 1, shown)
                    /\ shownAnnotations' = step.nodeAnnotations
                    /\ fullLog' = fullLog \o step.display \o "\n"
                    /\ timers' = [timers EXCEPT ![i].index = @ + 1]
                    /\ UNCHANGED isRunningAlgorithm

\* the effect of ForceGraph that builds the graph and binds the click handlers
\* runs after a render in which nodes, edges or a flag of the graph has changed
\* (its dependency list: part_005, line 345); the handlers keep the value
\* isRunningAlgorithm had in that render
EffectRuns(running) == handlerRunning' = running

\* a change of the graph setup leaves the algorithm and the replay alone
Edit ==
    /\ pc = "idle" /\ edits < MaxEdits
    /\ edits' = edits + 1
    /\ UNCHANGED <<args, pc, error, ret, locals, invocation, first>>
    /\ UNCHANGED <<highlightedNodes, fullLog, selectedAlgo, shownAnnotations,
                   errorMessage, isRunningAlgorithm, timers, runs>>

\* the Directed and Undirected radio buttons: page.tsx, lines 154-155
SetIsDirected(b) ==
    /\ Edit /\ b # isDirected
    /\ isDirected' = b
    /\ EffectRuns(isRunningAlgorithm)
    /\ UNCHANGED <<nodes, edges, isWeighted, selectedNode>>

\* the Weighted and Unweighted radio buttons and the effect that follows:
\* page.tsx, lines 156-157 and 36-48
SetIsWeighted(b) ==
    /\ Edit /\ b # isWeighted
    /\ isWeighted' = b
    /\ edges' = Normalized(edges, b)
    /\ EffectRuns(isRunningAlgorithm)
    /\ UNCHANGED <<nodes, isDirected, selectedNode>>

\* the Starting Node select: page.tsx, line 262
SetSelectedNode(v) ==
    /\ Edit /\ v # selectedNode
    /\ v \in {""} \cup {nodes[i] : i \in 1..Len(nodes)}
    /\ selectedNode' = v
    /\ UNCHANGED <<nodes, edges, isDirected, isWeighted, handlerRunning>>

\* the Add Edge button: page.tsx, lines 185-192
AddEdge(n1, n2, weight) ==
    /\ Edit
    /\ {n1, n2} \subseteq {nodes[i] : i \in 1..Len(nodes)}
    /\ IF n1 # n2
       THEN /\ edges' = Append(edges, IF isWeighted
                                      THEN [node1 |-> n1, node2 |-> n2, weight |-> weight]
                                      ELSE [node1 |-> n1, node2 |-> n2])
            /\ EffectRuns(isRunningAlgorithm)
       ELSE UNCHANGED <<edges, handlerRunning>>
    /\ UNCHANGED <<nodes, isDirected, isWeighted, selectedNode>>

MsgNoNodeEdit == "Cannot edit nodes while an algorithm is running."
MsgNoEdgeEdit == "Cannot edit edges while an algorithm is running."
MsgBadLabel == "Please enter a unique, non-empty node label."
MsgBadWeight == "Please enter a valid non-negative number for the weight."
\* the nodes and the edges (by index) that are clicked in the drawing, the
\* labels typed into the prompt of a node, and what is typed into the prompt
\* of an edge: the word delete, or a weight
ClickedNodes == {"B"}
NewLabels == {"F"}
ClickedEdges == {1}
EdgePromptInputs == {[delete |-> TRUE, weight |-> 0], [delete |-> FALSE, weight |-> 0]}

\* a click in the drawing changes nothing of the algorithm, the replay, the
\* flags of the graph or the start node
Click ==
    /\ pc = "idle" /\ edits < MaxEdits
    /\ edits' = edits + 1
    /\ UNCHANGED <<args, pc, error, ret, locals, invocation, first>>
    /\ UNCHANGED <<isDirected, isWeighted, highlightedNodes, selectedNode, fullLog,
                   selectedAlgo, shownAnnotations, isRunningAlgorithm, timers, runs>>

\* a click on a node of the drawing, newLabel typed into the prompt:
\* part_005, lines 208-237
NodeClick(id, newLabel) ==
    /\ Click
    /\ id \in {nodes[i] : i \in 1..Len(nodes)}
    /\ IF handlerRunning
       THEN /\ errorMessage' = MsgNoNodeEdit
            /\ UNCHANGED <<nodes, edges, handlerRunning>>
       ELSE IF newLabel # "" /\ ~Has(nodes, newLabel)
       THEN /\ nodes' = [i \in 1..Len(nodes) |-> IF nodes[i] = id THEN newLabel ELSE nodes[i]]
            /\ edges' = [i \in 1..Len(edges) |->
                            [edges[i] EXCEPT
                                !.node1 = IF @ = id THEN newLabel ELSE @,
                                !.node2 = IF @ = id THEN newLabel ELSE @]]
            /\ EffectRuns(isRunningAlgorithm)
            /\ UNCHANGED errorMessage
       ELSE /\ errorMessage' = MsgBadLabel
            /\ UNCHANGED <<nodes, edges, handlerRunning>>

\* the edges left when the edges between two nodes are deleted: part_005,
\* lines 118-123 and 143-148
WithoutEdge(es, sourceId, targetId) ==
    SelectSeq(es, LAMBDA e :
        /\ ~(e.node1 = sourceId /\ e.node2 = targetId)
        /\ ~(e.node1 = targetId /\ e.node2 = sourceId))

\* a click on the edge of index i of the drawing, typed being the answer to
\* the prompt (or, delete being true, the confirmation on an unweighted
\* graph): part_005, lines 102-159
EdgeClick(i, typed) ==
    /\ Click
    /\ i \in 1..Len(edges)
    /\ UNCHANGED nodes
    /\ LET sourceId == edges[i].node1
           targetId == edges[i].node2
       IN  IF handlerRunning
           THEN /\ errorMessage' = MsgNoEdgeEdit
                /\ UNCHANGED <<edges, handlerRunning>>
           ELSE IF typed.delete
           THEN /\ edges' = WithoutEdge(edges, sourceId, targetId)
                /\ EffectRuns(isRunningAlgorithm)
                /\ UNCHANGED errorMessage
           ELSE /\ isWeighted
                /\ IF typed.weight >= 0
                   THEN /\ edges' = [k \in 1..Len(edges) |->
                                IF \/ (edges[k].node1 = sourceId /\ edges[k].node2 = targetId)
                                   \/ (~isDirected /\ edges[k].node1 = targetId
                                                   /\ edges[k].node2 = sourceId)
                                THEN [node1 |-> edges[k].node1, node2 |-> edges[k].node2,
                                      weight |-> typed.weight]
                                ELSE edges[k]]
                        /\ EffectRuns(isRunningAlgorithm)
                        /\ UNCHANGED errorMessage
                   ELSE /\ errorMessage' = MsgBadWeight
                        /\ UNCHANGED <<edges, handlerRunning>>

\* the Clear Graph button: page.tsx, lines 64-74; the intervals keep firing
ClearGraph ==
    /\ pc = "idle" /\ edits < MaxEdits
    /\ edits' = edits + 1
    /\ nodes' = <<>>
    /\ edges' = <<>>
    /\ highlightedNodes' = <<>>
    /\ shownAnnotations' = EmptyRecord
    /\ fullLog' = ""
    /\ selectedAlgo' = ""
    /\ selectedNode' = ""
    /\ errorMessage' = ""
    /\ isRunningAlgorithm' = FALSE
    /\ EffectRuns(FALSE)
    /\ UNCHANGED <<isDirected, isWeighted, timers, runs>>
    /\ UNCHANGED <<args, pc, error, ret, locals, invocation, first>>

Next ==
    \/ DFSCall
    \/ DFSPop
    \/ DFSSweep
    \/ BFSCall
    \/ BFSDequeue
    \/ BFSReturn
    \/ DijkstraCall
    \/ DijkstraExtract
    \/ DijkstraReturn
    \/ ToposortCall
    \/ ToposortDequeue
    \/ ToposortReturn

NextDFS == DFSCall \/ DFSPop \/ DFSSweep
NextBFS == BFSCall \/ BFSDequeue \/ BFSReturn
NextDijkstra == DijkstraCall \/ DijkstraExtract \/ DijkstraReturn
NextToposort == ToposortCall \/ ToposortDequeue \/ ToposortReturn
NextTraversals == NextDFS \/ NextBFS \/ NextToposort
NextRepeat == Next \/ Reinvoke
NextExample == NextDFS \/ NextBFS
\* the page: the clicks, the steps of the algorithm that was called, the ticks
NextPage ==
    \/ \E a \in Algorithms : RunAlgorithm(a)
    \/ Next
    \/ RunSucceeded
    \/ RunFailed
    \/ \E i \in 1..MaxRuns : Tick(i)
    \/ \E b \in BOOLEAN : SetIsDirected(b)
    \/ \E b \in BOOLEAN : SetIsWeighted(b)
    \/ \E v \in StartOptions : SetSelectedNode(v)
    \/ \E ends \in NewEdgeEnds, weight \in NewEdgeWeights : AddEdge(ends[1], ends[2], weight)
    \/ ClearGraph

\* one replay left to itself: the graph setup is changed only before the run,
\* there is one run, and nothing but the interval acts after it
NextReplay ==
    \/ runs = 0 /\ \E a \in Algorithms : RunAlgorithm(a)
    \/ Next
    \/ RunSucceeded
    \/ RunFailed
    \/ Tick(1)
    \/ runs = 0 /\ \E b \in BOOLEAN : SetIsDirected(b)
    \/ runs = 0 /\ \E b \in BOOLEAN : SetIsWeighted(b)
    \/ runs = 0 /\ \E v \in StartOptions : SetSelectedNode(v)
    \/ runs = 0 /\ \E ends \in NewEdgeEnds, weight \in NewEdgeWeights :
                       AddEdge(ends[1], ends[2], weight)
    \/ runs = 0 /\ ClearGraph
\* what goes on without the user: the call of the algorithm runs to its end
\* and the interval fires every 500 ms until it is cleared
Replaying == Next \/ RunSucceeded \/ RunFailed \/ Tick(1)

\* the runs of DFS and BFS from the page, their replays, and the clicks on the
\* nodes and the edges of the drawing
NextClicks ==
    \/ \E a \in {"dfs", "bfs"} : RunAlgorithm(a)
    \/ NextDFS
    \/ NextBFS
    \/ RunSucceeded
    \/ RunFailed
    \/ \E i \in 1..MaxRuns : Tick(i)
    \/ \E b \in BOOLEAN : SetIsWeighted(b)
    \/ ClearGraph
    \/ \E id \in ClickedNodes, newLabel \in NewLabels : NodeClick(id, newLabel)
    \/ \E i \in ClickedEdges, typed \in EdgePromptInputs : EdgeClick(i, typed)

\* every algorithm on the small graphs of every kind
Spec == Init /\ [][Next]_vars
\* the same, each call followed by a second call with the same arguments
SpecRepeat == Init /\ [][NextRepeat]_vars
\* one algorithm on the graphs of its kind
SpecDFS == InitDFS /\ [][NextDFS]_vars
SpecBFS == InitBFS /\ [][NextBFS]_vars
SpecDijkstra == InitDijkstra /\ [][NextDijkstra]_vars
SpecToposort == InitToposort /\ [][NextToposort]_vars
\* the three rank-annotating traversals on the graphs of their kind
SpecTraversals == InitTraversals /\ [][NextTraversals]_vars

\* runDFS and runBFS on the graph the page is created with
SpecDeepDFS == InitDeepDFS /\ [][NextDFS]_vars
SpecExample == InitExample /\ [][NextExample]_vars

\* every algorithm on the graphs of at most MaxEdges edges of its kind; a call
\* runs to its end without interruption, so a loop that can take a step takes it
InitRuns ==
    \/ InitDFS
    \/ InitBFS
    \/ InitOn("dijkstra", WeightedGraphs(MaxEdges, 0), ValidStartIds)
    \/ InitToposort
NextRuns == NextDFS \/ NextBFS \/ NextDijkstra \/ NextToposort
SpecRuns == InitRuns /\ [][NextRuns]_vars /\ WF_vars(NextRuns)

\* the page with one run whose replay is left to itself
SpecReplay == InitPage /\ [][NextReplay]_vars /\ WF_vars(Replaying)

\* the page and its drawing from the first render on, with DFS and BFS
SpecClicks == InitPage /\ [][NextClicks]_vars

\* the page from its first render on
SpecPage == InitPage /\ [][NextPage]_vars

\* ======================================================= reference notions
\* the definitions of this section are graph theory, not code: the claims
\* compare what the code returns with them

Min(S) == CHOOSE x \in S : \A y \in S : x <= y

Returned == pc = "done"
Threw == pc = "error"
Ended == Returned \/ Threw

\* the arcs of a graph: an edge is one arc when the graph is directed, two
\* otherwise; an edge without weight costs one hop
Arcs(g) ==
    LET E == {g.edges[i] : i \in 1..Len(g.edges)}
        cost(e) == IF "weight" \in DOMAIN e THEN e.weight ELSE 1
        forward == {[from |-> e.node1, to |-> e.node2, cost |-> cost(e)] : e \in E}
        backward == {[from |-> e.node2, to |-> e.node1, cost |-> cost(e)] : e \in E}
    IN  IF g.isDirected THEN forward ELSE forward \cup backward

\* Bellman-Ford: the lengths of the shortest paths of at most `rounds` arcs more
RECURSIVE Settle(_, _, _)
Settle(d, arcs, rounds) ==
    IF rounds = 0 THEN d
    ELSE Settle([v \in DOMAIN d |->
                    Min({d[v]} \cup {d[a.from] + a.cost :
                            a \in {x \in arcs : x.to = v /\ d[x.from] # Infinity}})],
                arcs, rounds - 1)

\* the length of the shortest path from s to every node; Infinity when there is none
ShortestDistances(g, s) ==
    Settle([n \in NodeIds(g) |-> IF n = s THEN 0 ELSE Infinity], Arcs(g), Len(g.nodes))

Reachable(g, s) == {n \in NodeIds(g) : ShortestDistances(g, s)[n] # Infinity}

\* the pairs <<a, b>> with a path of at least one arc from a to b
RECURSIVE Closure(_, _)
Closure(R, rounds) ==
    IF rounds = 0 THEN R
    ELSE Closure(R \cup {<<p[1][1], p[2][2]>> : p \in {q \in R \X R : q[1][2] = q[2][1]}},
                 rounds - 1)

HasCycle(g) ==
    LET R == Closure({<<a.from, a.to>> : a \in Arcs(g)}, Len(g.nodes))
    IN  \E n \in NodeIds(g) : <<n, n>> \in R

\* the neighbours of node, one for every edge that leaves it, in the order of
\* the edge list
Successors(g, node) ==
    LET leaving == SelectSeq(g.edges,
            LAMBDA e : e.node1 = node \/ (~g.isDirected /\ e.node2 = node))
    IN  [i \in 1..Len(leaving) |->
            IF leaving[i].node1 = node THEN leaving[i].node2 ELSE leaving[i].node1]

\* the recursive depth-first search: RecVisit enters node and then, for each
\* neighbour in turn that has not been entered by then, searches from it;
\* the value is the list of the nodes entered, in the order of entry
RECURSIVE RecVisit(_, _, _)
RECURSIVE RecInto(_, _, _)
RecVisit(g, node, entered) == RecInto(g, Successors(g, node), Append(entered, node))
RecInto(g, neighbors, entered) ==
    IF Len(neighbors) = 0 THEN entered
    ELSE IF Has(entered, Head(neighbors)) THEN RecInto(g, Tail(neighbors), entered)
    ELSE RecInto(g, Tail(neighbors), RecVisit(g, Head(neighbors), entered))

\* the search from each root in turn that has not been entered by then
RECURSIVE RecRoots(_, _, _)
RecRoots(g, roots, entered) ==
    IF Len(roots) = 0 THEN entered
    ELSE IF Has(entered, Head(roots)) THEN RecRoots(g, Tail(roots), entered)
    ELSE RecRoots(g, Tail(roots), RecVisit(g, Head(roots), entered))

\* the preorder of the recursive search whose roots are the start node, when
\* it is a node of the graph, and then the nodes of the graph in their order
RecursiveDfs(g, s) ==
    RecRoots(g, (IF IsNode(g, s) THEN <<s>> ELSE <<>>) \o Map(g.nodes, LAMBDA n : n.id), <<>>)

\* arr lists every element of S exactly once and nothing else
ListsExactly(arr, S) ==
    /\ Len(arr) = Cardinality(S)
    /\ {arr[i] : i \in 1..Len(arr)} = S

\* the position of x in arr
IndexOf(arr, x) == CHOOSE i \in 1..Len(arr) : arr[i] = x

\* ================================================================= claims

\* C1: on a weighted graph with non-negative weights and a valid start node,
\* the log runDijkstra returns holds, for every node, the length of the
\* shortest path from the start, and Infinity for the nodes out of reach.
C1_DijkstraDistances ==
    (algo = "dijkstra" /\ Returned) =>
        /\ DOMAIN ret.log = NodeIds(graph)
        /\ \A n \in NodeIds(graph) : ret.log[n] = ShortestDistances(graph, startId)[n]

\* a run in which a node out of reach stays at Infinity and the distance of
\* another node is below the weight of an edge that joins it to the start
C1_Witness ==
    /\ algo = "dijkstra" /\ Returned
    /\ \E n \in NodeIds(graph) : ret.log[n] = Infinity
    /\ \E i \in 1..Len(graph.edges) :
        /\ graph.edges[i].node1 = startId
        /\ ret.log[graph.edges[i].node2] < graph.edges[i].weight

\* C2: whatever the start id, the traversal runDFS returns on an unweighted
\* graph lists every node of the graph exactly once and nothing else.
C2_DfsCoverage ==
    (algo = "dfs" /\ Returned) => ListsExactly(ret.traversal, NodeIds(graph))

\* a run on a directed graph of three nodes, started at an unknown id, in which
\* the stack holds an entry whose node has been visited
C2_Witness ==
    /\ algo = "dfs" /\ pc = "loop"
    /\ graph.isDirected /\ startId = UnknownId
    /\ Len(graph.nodes) = 3
    /\ Len(result) = 2
    /\ \E i \in 1..Len(stack) : Has(visited, stack[i])

\* C3: when runToposort returns, every edge (a, b) has log[a] < log[b],
\* parallel edges included.
C3_ToposortOrder ==
    (algo = "toposort" /\ Returned) =>
        \A i \in 1..Len(graph.edges) :
            ret.log[graph.edges[i].node1] < ret.log[graph.edges[i].node2]

\* a returned order of three nodes on a graph with two parallel edges
C3_Witness ==
    /\ algo = "toposort" /\ Returned
    /\ Len(ret.traversal) = 3
    /\ \E i, j \in 1..Len(graph.edges) : i # j /\ graph.edges[i] = graph.edges[j]

\* C4: on a directed graph runToposort throws the cycle error exactly when the
\* graph has a directed cycle (a self-loop is one), and otherwise returns a
\* traversal that lists every node exactly once.
C4_CycleDetected ==
    (algo = "toposort" /\ graph.isDirected /\ Ended) =>
        /\ (Threw /\ ErrorKind(error) = "CycleDetected") <=> HasCycle(graph)
        /\ Returned => ListsExactly(ret.traversal, NodeIds(graph))

\* the cycle error on a graph without self-loop, after one node was ordered
C4_Witness ==
    /\ algo = "toposort" /\ Threw /\ error = MsgCycle
    /\ \A i \in 1..Len(graph.edges) : graph.edges[i].node1 # graph.edges[i].node2
    /\ Len(traversal) = 1

C6_StepsFrozen ==
    \A i \in 1..Len(steps) : steps[i] = recorded[i]

\* C7: when a run returns at least one step, the annotations of the last step
\* are the annotations of the result, also when a node is out of reach of the
\* start of a Dijkstra run.
C7_LastAnnotations ==
    (Returned /\ Len(ret.steps) > 0) =>
        ret.steps[Len(ret.steps)].nodeAnnotations = ret.nodeAnnotations

\* C8: when runDFS, runBFS or runToposort returns at least one step, the last
\* step has the whole traversal as visited and its last node as current.
C8_LastStep ==
    (algo \in {"dfs", "bfs", "toposort"} /\ Returned /\ Len(ret.steps) > 0) =>
        LET last == ret.steps[Len(ret.steps)]
        IN  /\ last.visited = ret.traversal
            /\ last.current = ret.traversal[Len(ret.traversal)]

\* a BFS run that returns three steps, the second of which left one node queued
C8_Witness ==
    /\ algo = "bfs" /\ Returned
    /\ Len(ret.steps) = 3
    /\ Len(ret.steps[2].structure) = 1

C10_UnsupportedGraphKind ==
    (Ended /\ ~Falsy(startId) /\ IsNode(graph, startId)) =>
        LET unsupported == Threw /\ ErrorKind(error) = "UnsupportedGraphKind"
        IN  /\ algo \in {"dfs", "bfs"} => (unsupported <=> graph.isWeighted)
            /\ algo = "dijkstra" => (unsupported <=> ~graph.isWeighted)
            /\ algo = "toposort" => (unsupported <=> ~graph.isDirected)
            /\ unsupported => ret = NoResult

\* Toposort returns an order for a weighted directed graph with an edge
C10_Witness ==
    /\ algo = "toposort" /\ Returned
    /\ graph.isWeighted /\ graph.isDirected
    /\ Len(graph.edges) > 0
    /\ IsNode(graph, startId)

\* C11: runBFS on an unweighted graph and runDijkstra on a weighted graph throw
\* the start-node error exactly when the start id is absent, empty or the id of
\* no node of the graph.
C11_InvalidStartNode ==
    (Ended /\ (\/ algo = "bfs" /\ ~graph.isWeighted
               \/ algo = "dijkstra" /\ graph.isWeighted)) =>
        ((Threw /\ ErrorKind(error) = "InvalidStartNode") <=> startId \notin NodeIds(graph))

\* runDijkstra throws the start-node error for an unknown id on a weighted
\* graph that has nodes and an edge of negative weight
C11_Witness ==
    /\ algo = "dijkstra" /\ Threw /\ error = MsgInvalidStart
    /\ graph.isWeighted /\ startId = UnknownId
    /\ \E i \in 1..Len(graph.edges) : graph.edges[i].weight < 0

\* C12: runDijkstra on a weighted graph with a valid start node throws the
\* negative-weight error exactly when some edge of the graph, within reach of
\* the start or not, has a weight below zero; such a call finalizes no node
\* and records no step.
C12_NegativeWeight ==
    (algo = "dijkstra" /\ graph.isWeighted /\ startId \in NodeIds(graph)) =>
        LET negative == \E i \in 1..Len(graph.edges) : graph.edges[i].weight < 0
        IN  /\ Ended => ((Threw /\ ErrorKind(error) = "NegativeWeight") <=> negative)
            /\ negative => visited = <<>> /\ traversal = <<>> /\ steps = <<>>
                              /\ ret = NoResult

\* the error for a negative edge between two nodes other than the start
C12_Witness ==
    /\ algo = "dijkstra" /\ Threw /\ error = MsgNegative
    /\ startId = "A"
    /\ \E i \in 1..Len(graph.edges) :
        /\ graph.edges[i].weight < 0
        /\ graph.edges[i].node1 = "B" /\ graph.edges[i].node2 = "C"

C14_InputUnchanged ==
    [][(pc \in {"call", "loop", "sweep"}) => (graph' = graph)]_vars

\* runDijkstra has returned two steps on a graph with an edge
C14_Witness ==
    /\ algo = "dijkstra" /\ Returned
    /\ Len(graph.edges) = 1
    /\ Len(ret.steps) = 2

\* C15: runDFS on an unweighted graph throws for no start id; the first node it
\* visits is startId when startId is a node of the graph and the first declared
\* node otherwise; and each later component is entered, once the stack of the
\* component before is empty, at the first node in declared order that is
\* unvisited then.
C15_DfsRoots ==
    [][(algo = "dfs" /\ ~graph.isWeighted) =>
        LET expected == IF startId \in NodeIds(graph) THEN startId ELSE graph.nodes[1].id
            unvisited == {i \in 1..Len(graph.nodes) : ~Has(visited, graph.nodes[i].id)}
        IN  /\ pc' # "error"
            /\ (Len(result) = 0 /\ Len(result') = 1) => (result'[1] = expected)
            /\ (pc' = "done" /\ Len(graph.nodes) > 0) => (ret'.traversal[1] = expected)
            /\ (pc = "sweep" /\ pc' = "loop") =>
                    (stack = <<>> /\ stack' = <<graph.nodes[Min(unvisited)].id>>)]_vars

\* a run started at B that visits the component of B and C and then enters
\* the component of A
C15_Witness ==
    /\ algo = "dfs" /\ Returned
    /\ startId = "B"
    /\ ret.traversal = <<"B", "C", "A">>
    /\ Len(graph.edges) > 0

\* C16: runBFS visits the component of the start only: the traversal it returns
\* lists exactly the nodes within reach of startId (along the direction of the
\* edges when the graph is directed), each once, and a node out of reach is in
\* no step and has no entry in log and none in nodeAnnotations.
C16_BfsComponent ==
    (algo = "bfs" /\ Returned) =>
        LET within == Reachable(graph, startId)
            Elements(arr) == {arr[i] : i \in 1..Len(arr)}
        IN  /\ ListsExactly(ret.traversal, within)
            /\ DOMAIN ret.log = within
            /\ DOMAIN ret.nodeAnnotations = within
            /\ \A i \in 1..Len(ret.steps) :
                 /\ ret.steps[i].current \in within
                 /\ Elements(ret.steps[i].visited) \subseteq within
                 /\ Elements(ret.steps[i].structure) \subseteq within
                 /\ DOMAIN ret.steps[i].nodeAnnotations \subseteq within

\* a returned traversal of two nodes on a directed graph of three nodes, one of
\* which has an edge to the start and is out of reach of it
C16_Witness ==
    /\ algo = "bfs" /\ Returned
    /\ graph.isDirected /\ Len(graph.nodes) = 3
    /\ Len(ret.traversal) = 2
    /\ \E i \in 1..Len(graph.edges) :
        /\ graph.edges[i].node2 = startId
        /\ ~Has(ret.traversal, graph.edges[i].node1)

\* C17: in a result of runDFS, runBFS or runToposort, log is the inverse of
\* traversal and the annotation is the rank counted from one: the node at the
\* zero-based index i has log i and the decimal string of i + 1 as annotation,
\* and log and nodeAnnotations have no key outside traversal.
C17_LogInverse ==
    (algo \in {"dfs", "bfs", "toposort"} /\ Returned) =>
        LET listed == {ret.traversal[k] : k \in 1..Len(ret.traversal)}
        IN  /\ DOMAIN ret.log = listed
            /\ DOMAIN ret.nodeAnnotations = listed
            /\ \A k \in 1..Len(ret.traversal) :
                 /\ ret.log[ret.traversal[k]] = k - 1
                 /\ ret.nodeAnnotations[ret.traversal[k]] = ToString(k)

\* an order of Toposort that is not the declared order of the nodes
C17_Witness ==
    /\ algo = "toposort" /\ Returned
    /\ ret.traversal = <<"C", "A", "B">>
    /\ ret.log["B"] = 2 /\ ret.nodeAnnotations["B"] = "3"

\* C18: every step runDijkstra records carries a whole snapshot of the
\* distances: its nodeAnnotations has an entry for every node of the graph,
\* the distance known when the step is recorded for a node that is finalized or
\* queued, the infinity symbol for a node whose distance is still infinite.
C18_CompleteSnapshot ==
    (algo = "dijkstra" /\ Len(steps) > 0) =>
        /\ \A i \in 1..Len(steps) : DOMAIN steps[i].nodeAnnotations = NodeIds(graph)
        /\ \A n \in NodeIds(graph) :
             /\ n \in DOMAIN steps[Len(steps)].nodeAnnotations
             /\ steps[Len(steps)].nodeAnnotations[n] =
                    IF distances[n] = Infinity THEN InfinitySymbol
                    ELSE ToString(distances[n])

\* C19: the frontier of runDijkstra is an indexed priority queue with
\* decrease-key: in every recorded step, structure names no node twice and
\* names only nodes that are discovered and not finalized; a node whose
\* distance improves while it is queued keeps one entry.
C19_IndexedQueue ==
    algo = "dijkstra" =>
        \A i \in 1..Len(steps) :
            LET structure == steps[i].structure
            IN  /\ \A j, k \in 1..Len(structure) : j # k => structure[j] # structure[k]
                /\ \A j \in 1..Len(structure) : ~Has(steps[i].visited, structure[j])

\* C20: in runDFS, when the node visited last has a neighbour that is still
\* unvisited (along node1 to node2 when the graph is directed, along both
\* directions otherwise), the node visited next is its first unvisited
\* neighbour in the order of the edge list.
C20_FirstNeighbourNext ==
    [][(algo = "dfs" /\ Len(result) > 0 /\ Len(result') = Len(result) + 1) =>
        LET v == result[Len(result)]
            other(i) == IF graph.edges[i].node1 = v THEN graph.edges[i].node2
                        ELSE graph.edges[i].node1
            open == {i \in 1..Len(graph.edges) :
                        /\ \/ graph.edges[i].node1 = v
                           \/ ~graph.isDirected /\ graph.edges[i].node2 = v
                        /\ ~Has(visited, other(i))}
        IN  open # {} => (result'[Len(result')] = other(Min(open)))]_vars

\* A has the unvisited neighbours C and B, in this order of the edge list, and
\* C is visited after A
C20_Witness ==
    /\ algo = "dfs" /\ result = <<"A", "C">>
    /\ Len(graph.edges) = 2
    /\ graph.edges[1] = [node1 |-> "A", node2 |-> "C"]
    /\ graph.edges[2] = [node1 |-> "A", node2 |-> "B"]

\* C21 as claimed: on the undirected graph of the nodes A to E with the edges
\* A-B, A-C, B-D, C-E, D-E, runDFS from A returns the traversal A, C, E, D, B.
C21_ExampleOrder ==
    (algo = "dfs" /\ Returned /\ ~graph.isDirected /\ startId = "A") =>
        ret.traversal = <<"A", "C", "E", "D", "B">>

\* C21 as amended: on that graph runDFS from A returns the traversal
\* A, B, D, E, C: the first-listed neighbour of a node is visited first.
C21_ExampleOrderAmended ==
    (algo = "dfs" /\ Returned /\ ~graph.isDirected /\ startId = "A") =>
        ret.traversal = <<"A", "B", "D", "E", "C">>

\* runDFS from A has returned five steps on the undirected example graph
C21_Witness ==
    /\ algo = "dfs" /\ Returned /\ ~graph.isDirected /\ startId = "A"
    /\ Len(graph.nodes) = 5 /\ Len(graph.edges) = 5
    /\ Len(ret.steps) = 5

\* C22: runDFS records one step for every node: the result has as many steps
\* as the graph has nodes, the step at index i has traversal[i] as current and
\* the first i + 1 entries of traversal as visited; the structure of a step is
\* the stack right after the pop, before the neighbours are pushed; and the pop
\* of an entry whose node is visited records no step and leaves visited, log,
\* the traversal and the annotations as they are.
C22_DfsSteps ==
    [][algo = "dfs" =>
        /\ (pc' = "done") =>
            /\ Len(ret'.steps) = Len(graph.nodes)
            /\ \A i \in 1..Len(ret'.steps) :
                /\ ret'.steps[i].current = ret'.traversal[i]
                /\ ret'.steps[i].visited = SubSeq(ret'.traversal, 1, i)
        /\ (pc = "loop" /\ Len(stack) > 0) =>
            IF Has(visited, stack[Len(stack)])
            THEN UNCHANGED <<steps, visited, log, result, nodeAnnotations>>
            ELSE /\ Len(steps') = Len(steps) + 1
                 /\ steps'[Len(steps')].current = stack[Len(stack)]
                 /\ steps'[Len(steps')].structure = SubSeq(stack, 1, Len(stack) - 1)]_vars

\* a returned run on a graph of three nodes with two parallel edges between two
\* nodes: the second entry pushed for the same neighbour was popped as stale
C22_Witness ==
    /\ algo = "dfs" /\ Returned
    /\ Len(graph.nodes) = 3 /\ Len(ret.steps) = 3
    /\ Len(graph.edges) = 2 /\ graph.edges[1] = graph.edges[2]
    /\ graph.edges[1].node1 # graph.edges[1].node2

\* C23: runBFS marks a node discovered when it enqueues it: at every point of
\* the run the queue holds no node twice and only discovered nodes, no node is
\* enqueued a second time (the nodes dequeued so far followed by the queue hold
\* no node twice), and when the run returns every node that was enqueued has
\* been dequeued, once.
C23_EnqueuedOnce ==
    (algo = "bfs" /\ pc \in {"loop", "done"}) =>
        LET dequeued == [i \in 1..Len(steps) |-> steps[i].current]
            enqueued == dequeued \o queue
        IN  /\ \A i, j \in 1..Len(enqueued) : i # j => enqueued[i] # enqueued[j]
            /\ \A i \in 1..Len(enqueued) : discovered[enqueued[i]]
            /\ Returned => (queue = <<>> /\ dequeued = ret.traversal)

\* a returned run in which the neighbour of the start is met twice, along two
\* parallel edges
C23_Witness ==
    /\ algo = "bfs" /\ Returned
    /\ Len(graph.edges) = 2 /\ graph.edges[1] = graph.edges[2]
    /\ graph.edges[1].node1 = startId /\ graph.edges[1].node2 # startId
    /\ Len(ret.traversal) = 2

\* C24: runBFS records one step for every dequeue, after the node has left the
\* queue and before its neighbours are enqueued: the structure of the step is
\* the queue without the dequeued node; and the annotations of the step hold,
\* for the dequeued node and for every node of structure, the rank the node
\* has in the result.
C24_BfsSteps ==
    [][algo = "bfs" =>
        /\ (pc = "loop" /\ Len(queue) > 0) =>
            /\ Len(steps') = Len(steps) + 1
            /\ steps'[Len(steps')].current = Head(queue)
            /\ steps'[Len(steps')].structure = Tail(queue)
        /\ (pc' = "done") =>
            \A i \in 1..Len(ret'.steps) :
                \A n \in {ret'.steps[i].current} \cup
                         {ret'.steps[i].structure[k] :
                             k \in 1..Len(ret'.steps[i].structure)} :
                    /\ n \in DOMAIN ret'.steps[i].nodeAnnotations
                    /\ ret'.steps[i].nodeAnnotations[n] = ret'.nodeAnnotations[n]]_vars

\* a returned run from A whose second step left C queued, with its rank
C24_Witness ==
    /\ algo = "bfs" /\ Returned /\ startId = "A"
    /\ Len(ret.steps) = 3
    /\ ret.steps[2].structure = <<"C">>
    /\ ret.steps[2].nodeAnnotations["C"] = "3"

\* C25: the traversal of runBFS is the order of discovery, the neighbours of a
\* dequeued node being discovered in the order of the edge list: on the
\* undirected example graph runBFS from A returns the traversal A, B, C, D, E
\* and log["A"] = 0.
C25_BfsExample ==
    (algo = "bfs" /\ Returned /\ ~graph.isDirected /\ startId = "A") =>
        /\ ret.traversal = <<"A", "B", "C", "D", "E">>
        /\ ret.log["A"] = 0

\* runBFS from A has returned on the undirected example graph, E was found
\* from C and the last step is the one of E
C25_Witness ==
    /\ algo = "bfs" /\ Returned /\ ~graph.isDirected /\ startId = "A"
    /\ Len(graph.nodes) = 5 /\ Len(graph.edges) = 5
    /\ Len(ret.steps) = 5 /\ ret.steps[5].current = "E"

\* C26: in runDijkstra, of the queue entries of the least distance the one
\* inserted first is extracted, and the entries that stay keep, among those of
\* one distance, the order of their insertion. The order of insertion is the
\* order of the entries in pq before the sort of the iteration: push appends,
\* and the entries left by the iteration before are in front of the new ones.
C26_TiesByInsertion ==
    [][(algo = "dijkstra" /\ pc = "loop" /\ Len(pq) > 0) =>
        LET least == Min({pq[i][2] : i \in 1..Len(pq)})
            earliest == Min({i \in 1..Len(pq) : pq[i][2] = least})
            others == SubSeq(pq, 1, earliest - 1) \o SubSeq(pq, earliest + 1, Len(pq))
            kept == SubSeq(pq', 1, Len(pq) - 1)
        IN  /\ IF Has(visited, pq[earliest][1])
               THEN traversal' = traversal
               ELSE traversal' = Append(traversal, pq[earliest][1])
            /\ Len(pq') >= Len(pq) - 1
            /\ \A d \in 0..Infinity :
                   SelectSeq(kept, LAMBDA entry : entry[2] = d)
                       = SelectSeq(others, LAMBDA entry : entry[2] = d)]_vars

\* B and C were both queued at distance 1, B first, and B has been extracted
\* while the entry of C is still queued
C26_Witness ==
    /\ algo = "dijkstra" /\ pc = "loop"
    /\ traversal = <<"A", "B">>
    /\ distances["B"] = 1
    /\ Len(pq) = 1 /\ pq[1] = <<"C", 1>>

\* C27: finalization is permanent in runDijkstra: the distance of a node that
\* was finalized at step k is changed by no later relaxation, so the annotation
\* of the node is the same string in every step from k on, the string of its
\* final log value; and a node is finalized at most once.
C27_FinalizedForGood ==
    (algo = "dijkstra" /\ pc \in {"loop", "done"}) =>
        /\ \A k \in 1..Len(steps) : \A j \in k..Len(steps) :
               LET n == steps[k].current
               IN  /\ n \in DOMAIN steps[j].nodeAnnotations
                   /\ steps[j].nodeAnnotations[n] = NumToString(distances[n])
                   /\ Returned => steps[j].nodeAnnotations[n] = NumToString(ret.log[n])
        /\ \A i, j \in 1..Len(traversal) : i # j => traversal[i] # traversal[j]
        /\ \A i, j \in 1..Len(steps) : i # j => steps[i].current # steps[j].current

\* three nodes are finalized, B after its distance went from 1 to 0, and the
\* entry of B at distance 1 is still queued
C27_Witness ==
    /\ algo = "dijkstra" /\ pc = "loop"
    /\ Len(steps) = 3
    /\ Len(pq) = 1 /\ Has(visited, pq[1][1])
    /\ pq[1][2] > distances[pq[1][1]]

\* C28: the traversal runDijkstra returns lists exactly the nodes that can be
\* reached from the start, each once, in non-decreasing order of their final
\* distance, and begins with the start node, whose distance is 0.
C28_DijkstraOrder ==
    (algo = "dijkstra" /\ Returned) =>
        /\ ListsExactly(ret.traversal, Reachable(graph, startId))
        /\ \A i, j \in 1..Len(ret.traversal) :
               i < j => ret.log[ret.traversal[i]] <= ret.log[ret.traversal[j]]
        /\ ret.traversal[1] = startId
        /\ ret.log[startId] = 0

\* a returned run over three nodes, all reached, in which the node of the
\* second edge is nearer than the other one and comes before it
C28_Witness ==
    /\ algo = "dijkstra" /\ Returned
    /\ Len(ret.traversal) = 3 /\ Len(graph.nodes) = 3
    /\ Len(graph.edges) >= 2
    /\ graph.edges[1].node1 = startId /\ graph.edges[2].node1 = startId
    /\ ret.traversal[2] = graph.edges[2].node2
    /\ ret.log[ret.traversal[2]] < ret.log[ret.traversal[3]]

\* C29: in runToposort the queue starts as the nodes without incoming edge, in
\* the order of graph.nodes; at every point of the run every node of the queue
\* has the remaining in-degree 0 and is not in the output; no node is enqueued
\* twice; and no remaining in-degree is below 0, parallel edges included.
C29_ToposortQueue ==
    (algo = "toposort" /\ (pc = "loop" \/ Returned \/ (Threw /\ error = MsgCycle))) =>
        LET enqueued == traversal \o queue
            incoming(n) == {i \in 1..Len(graph.edges) : graph.edges[i].node2 = n}
        IN  /\ (pc = "loop" /\ traversal = <<>>) =>
                   queue = SelectSeq(Map(graph.nodes, LAMBDA n : n.id),
                                     LAMBDA id : incoming(id) = {})
            /\ \A i \in 1..Len(queue) : inDegree[queue[i]] = 0
            /\ \A i, j \in 1..Len(enqueued) : i # j => enqueued[i] # enqueued[j]
            /\ \A n \in NodeIds(graph) : inDegree[n] >= 0

\* the first node of two parallel edges has been dequeued and the second node,
\* whose in-degree was 2, is queued
C29_Witness ==
    /\ algo = "toposort" /\ pc = "loop"
    /\ Len(graph.edges) = 2 /\ graph.edges[1] = graph.edges[2]
    /\ graph.edges[1].node1 # graph.edges[1].node2
    /\ Has(traversal, graph.edges[1].node1)
    /\ Has(queue, graph.edges[1].node2)

\* C30: every run ends, on graphs with cycles, self-loops and parallel edges
\* too: the stack of runDFS, the queues of runBFS and runToposort and the queue
\* of runDijkstra, which gets a new entry only for a distance that is strictly
\* below the one the node had, are empty in the end, and the call has returned
\* or raised its error.
C30_Terminates ==
    /\ <>(Ended /\ stack = <<>> /\ queue = <<>> /\ pq = <<>>)
    /\ [][(algo = "dijkstra" /\ pc = "loop" /\ Len(pq) > 0) =>
            /\ Len(pq') >= Len(pq) - 1
            /\ \A i \in Len(pq)..Len(pq') :
                   /\ pq'[i][2] < distances[pq'[i][1]]
                   /\ pq'[i][2] >= distances'[pq'[i][1]]
            /\ (distances' = distances) => (Len(pq') = Len(pq) - 1)]_vars

\* runDFS has returned on a graph with an edge from a node to itself and a
\* second edge that closes a cycle or repeats the first
C30_Witness ==
    /\ algo = "dfs" /\ Returned /\ stack = <<>>
    /\ Len(graph.edges) = 2
    /\ graph.edges[1].node1 = graph.edges[1].node2
    /\ Len(ret.steps) = Len(graph.nodes)

\* C31: for each of the four algorithms the steps and the traversal of a
\* result line up one to one: there are as many steps as traversal entries and
\* the step at index i names traversal[i] as current, so the last of the first
\* i + 1 traversal entries, which the replay highlights with step i, is the
\* node that step names.
C31_StepsLineUp ==
    Returned =>
        /\ Len(ret.steps) = Len(ret.traversal)
        /\ \A i \in 1..Len(ret.steps) :
               /\ ret.steps[i].current = ret.traversal[i]
               /\ SubSeq(ret.traversal, 1, i)[i] = ret.steps[i].current

\* runDijkstra has returned two steps after it dropped a queue entry: the
\* second of two parallel edges lowered the distance the first one had queued
C31_Witness ==
    /\ algo = "dijkstra" /\ Returned
    /\ Len(graph.edges) = 2
    /\ graph.edges[1].node1 = startId /\ graph.edges[2].node1 = startId
    /\ graph.edges[1].node2 = graph.edges[2].node2
    /\ graph.edges[1].node2 # startId
    /\ graph.edges[1].weight = 1 /\ graph.edges[2].weight = 0
    /\ Len(ret.steps) = 2

\* C32: on every unweighted graph, directed or not, the traversal of runDFS,
\* which works on a stack and drops the stack entries of visited nodes when it
\* pops them, is the preorder of the recursive depth-first search from the
\* same roots in the same order that goes into the unvisited neighbours of a
\* node in the order of the edge list.
C32_SameAsRecursive ==
    (algo = "dfs" /\ Returned) => ret.traversal = RecursiveDfs(graph, startId)

\* runDFS has returned on an undirected triangle: the third node was on the
\* stack twice
C32_Witness ==
    /\ algo = "dfs" /\ Returned /\ ~graph.isDirected
    /\ Len(graph.nodes) = 3 /\ Len(graph.edges) = 3
    /\ \A a, b \in NodeIds(graph) : a # b =>
           \E i \in 1..3 : {graph.edges[i].node1, graph.edges[i].node2} = {a, b}
    /\ Len(ret.traversal) = 3

\* the lines of the first k steps, as the replay appends them to fullLog
RECURSIVE LogLines(_, _)
LogLines(stepList, k) ==
    IF k = 0 THEN "" ELSE LogLines(stepList, k - 1) \o stepList[k].display \o "\n"

\* C33: a replay that no other action of the user interferes with shows the
\* steps 0..n-1 of its result in order, one for every tick: the tick of step i
\* highlights the first i + 1 entries of the traversal and appends the display
\* of the step to the log; the tick after the last step clears the interval;
\* and in the end isRunningAlgorithm is false, the highlighted nodes are the
\* whole traversal and the annotations are the final annotations of the result.
C33_ReplayInOrder ==
    /\ [][/\ (pc = "done") =>
                /\ timers' = <<[traversal |-> ret.traversal, steps |-> ret.steps,
                                finalAnnotations |-> ret.nodeAnnotations, index |-> 0]>>
                /\ isRunningAlgorithm' /\ fullLog' = "" /\ highlightedNodes' = <<>>
          /\ (pc = "idle" /\ timers # <<>>) =>
                LET replay == timers[1]
                    i == replay.index
                IN  IF i < Len(replay.steps)
                    THEN /\ timers' = <<[replay EXCEPT !.index = i + 1]>>
                         /\ highlightedNodes' = SubSeq(replay.traversal, 1, i + 1)
                         /\ fullLog' = fullLog \o replay.steps[i + 1].display \o "\n"
                         /\ shownAnnotations' = replay.steps[i + 1].nodeAnnotations
                         /\ isRunningAlgorithm'
                    ELSE /\ timers' = <<>>
                         /\ ~isRunningAlgorithm'
                         /\ highlightedNodes' = replay.traversal
                         /\ shownAnnotations' = replay.finalAnnotations
                         /\ fullLog' = LogLines(replay.steps, Len(replay.steps))
          /\ (pc = "idle" /\ runs > 0 /\ timers = <<>>) => UNCHANGED vars]_vars
    /\ [](timers # <<>> =>
            /\ isRunningAlgorithm
            /\ fullLog = LogLines(timers[1].steps, timers[1].index))
    /\ (timers # <<>>) ~> (timers = <<>> /\ ~isRunningAlgorithm)

\* the replay of a run of BFS on a graph of five nodes is over: all the nodes
\* are highlighted and the log holds the lines of the steps
C33_Witness ==
    /\ pc = "idle" /\ runs = 1 /\ timers = <<>>
    /\ selectedAlgo = "bfs" /\ ~isRunningAlgorithm
    /\ highlightedNodes = <<"A", "B", "C", "D", "E">>
    /\ shownAnnotations = [n \in {"A", "B", "C", "D", "E"} |->
                              NumToString(IndexOf(highlightedNodes, n))]
    /\ fullLog # ""

\* C34: at most one replay is in flight: a call of runAlgorithm made while the
\* interval of an earlier replay is active does not lead to two active
\* intervals, so the lines of fullLog and the values of highlightedNodes come
\* from the steps of one result.
C34_SingleReplay == Len(timers) <= 1

\* C35: isRunningAlgorithm is false only when no interval of a replay is
\* active: after every sequence of runs, failing runs, clicks on Clear Graph
\* and ticks, isRunningAlgorithm is true whenever an interval is still set.
C35_RunningWhileReplay == (timers # <<>>) => isRunningAlgorithm

\* C36: while isRunningAlgorithm is true a click on a node or on an edge of
\* the drawing changes nothing of the graph (no rename, no change of a weight,
\* no deletion of an edge): it sets the error message that says editing is
\* not possible while an algorithm is running, and nothing else.
C36_NoEditWhileRunning ==
    [][(/\ isRunningAlgorithm
        /\ \/ \E id \in ClickedNodes, newLabel \in NewLabels : NodeClick(id, newLabel)
           \/ \E i \in ClickedEdges, typed \in EdgePromptInputs : EdgeClick(i, typed))
       => (/\ nodes' = nodes
           /\ edges' = edges
           /\ errorMessage' \in {MsgNoNodeEdit, MsgNoEdgeEdit})]_vars

====
